---- MODULE Spec2Model ----
(***************************************************************************)
(* A model of the documentRAG backend: the code-generation orchestrator    *)
(* (services.py), the vector store (vector_store.py), the chunker          *)
(* (ingest.py) and the codebase indexer (codebase.py) as it is driven by   *)
(* main.py.                                                                *)
(*                                                                         *)
(* The specifications that share the module:                                  *)
(*   SpecGen    one call of CodeGenerationService.generate_code            *)
(*   SpecStore  one InMemoryVectorStore driven by a single caller          *)
(*   Spec       the CodebaseAssistant shared by the startup thread and the *)
(*              request thread, interleaved statement by statement         *)
(*   SpecReindex the same assistant after the startup thread has ended,    *)
(*              with requests that re-index with force                     *)
(*   SpecChunk  one call of chunk_text (ingest.py), statement by statement *)
(*   SpecParse  one call of the steps of _parse_and_validate (services.py) *)
(* Text is modelled as a sequence of tokens; a Python dict as a function   *)
(* whose DOMAIN is its set of keys.                                        *)
(***************************************************************************)
EXTENDS Integers, Sequences, FiniteSets, TLC

VARIABLES
    \* ---- CodeGenerationService.generate_code (services.py) ----
    gpc,          \* position in generate_code
    instruction,  \* the local `instruction`
    attempt,      \* the loop variable `attempt` (0-based)
    last_error,   \* the local `last_error`
    llm_calls,    \* instructions passed to generate_assistant_response, in order
    llm_pending,  \* number of LLM calls started and not yet returned
    outcomes,     \* per attempt: what the attempt ended with
    gen_out,      \* what generate_code returned or raised
    \* ---- InMemoryVectorStore (vector_store.py) ----
    ids, vectors, texts, metadatas,   \* the four parallel lists
    use_chroma,   \* self.use_chroma
    collection,   \* the records held by the Chroma collection
    store_log,    \* warnings logged by the store
    store_ret,    \* what the last store operation returned or raised
    deleted_docs, \* history: doc ids deleted and not inserted again since
    \* ---- CodebaseAssistant (codebase.py) and its two threads (main.py) ----
    is_indexed,   \* self.is_indexed
    pc,           \* per thread: the statement it is at
    frame,        \* per thread: the locals of the running call
    walks,        \* number of directory walks started
    requests,     \* number of requests the request thread has taken
    \* ---- chunk_text (ingest.py) and _parse_and_validate (services.py), one call each ----
    chunker,      \* the arguments, locals and position of a call of chunk_text
    parser        \* the payload and the outcome of a call of the parse/validate steps

genVars   == <<gpc, instruction, attempt, last_error, llm_calls, llm_pending, outcomes, gen_out>>
storeVars == <<ids, vectors, texts, metadatas, use_chroma, collection, store_log, store_ret, deleted_docs>>
idxVars   == <<is_indexed, pc, frame, walks, requests>>
vars      == <<gpc, instruction, attempt, last_error, llm_calls, llm_pending, outcomes, gen_out,
               ids, vectors, texts, metadatas, use_chroma, collection, store_log, store_ret, deleted_docs,
               is_indexed, pc, frame, walks, requests, chunker, parser>>
pureVars  == <<chunker, parser>>

None == "None"

\* the empty dict {}
EmptyDict == [k \in {} |-> None]

(***************************************************************************)
(* Sequence helpers                                                        *)
(***************************************************************************)
Range(s) == {s[i] : i \in 1..Len(s)}

Min(a, b) == IF a < b THEN a ELSE b

\* s[a..b] as Python's s[a-1:b]: empty when b < a
Slice(s, a, b) == IF b < a THEN <<>> ELSE SubSeq(s, a, b)

\* str.find(c): the first position of c, 0 when absent
Find(s, c) ==
    IF \E i \in 1..Len(s) : s[i] = c
    THEN CHOOSE i \in 1..Len(s) : s[i] = c /\ \A j \in 1..(i-1) : s[j] # c
    ELSE 0

\* str.rfind(c): the last position of c, 0 when absent
RFind(s, c) ==
    IF \E i \in 1..Len(s) : s[i] = c
    THEN CHOOSE i \in 1..Len(s) : s[i] = c /\ \A j \in (i+1)..Len(s) : s[j] # c
    ELSE 0

\* str.strip(): leading and trailing blanks removed
Strip(s) ==
    IF \A i \in 1..Len(s) : s[i] = " " THEN <<>>
    ELSE LET a == CHOOSE i \in 1..Len(s) : s[i] # " " /\ \A j \in 1..(i-1) : s[j] = " "
             b == CHOOSE i \in 1..Len(s) : s[i] # " " /\ \A j \in (i+1)..Len(s) : s[j] = " "
         IN  SubSeq(s, a, b)

(***************************************************************************)
(* services.py: parsing and validation of the raw LLM output.              *)
(* A raw output is a sequence of tokens: the braces "{" and "}", a blank   *)
(* " ", a noise token "n", and one token per top-level member of the JSON  *)
(* object ("S" for "summary": "s", "A" for "assumptions": ["a"], "F" for   *)
(* "files": [], "C" for "class": "c"); separating commas are left out.     *)
(***************************************************************************)
Ok(v)  == [ok |-> TRUE,  val |-> v,    err |-> None]
Err(e) == [ok |-> FALSE, val |-> None, err |-> e]

MemberTokens == {"S", "A", "F", "C"}

MemberKey(tok) ==
    CASE tok = "S" -> "summary"
      [] tok = "A" -> "assumptions"
      [] tok = "F" -> "files"
      [] tok = "C" -> "class"

MemberValue(key) ==
    CASE key = "summary"     -> "s"
      [] key = "assumptions" -> <<"a">>
      [] key = "files"       -> <<>>
      [] key = "class"       -> "c"

\* the fallback loop of _extract_json: the first balanced brace block
RECURSIVE BraceScan(_, _, _, _, _)
BraceScan(text, i, brace_count, found_start, extracted) ==
    IF i > Len(text) THEN Err("ValueError")
    ELSE LET char == text[i]
             bc1  == IF char = "{" THEN brace_count + 1 ELSE brace_count
             fs1  == found_start \/ char = "{"
             ex1  == IF fs1 THEN Append(extracted, char) ELSE extracted
             bc2  == IF char = "}" THEN bc1 - 1 ELSE bc1
         IN  IF char = "}" /\ bc2 = 0 /\ fs1 THEN Ok(ex1)
             ELSE BraceScan(text, i + 1, bc2, fs1, ex1)

extract_json(raw) ==
    LET text      == Strip(raw)
        start_idx == Find(text, "{")
        end_idx   == RFind(text, "}")
    IN  IF start_idx = 0 \/ end_idx = 0 \/ end_idx < start_idx
        THEN BraceScan(text, 1, 0, FALSE, <<>>)
        ELSE Ok(SubSeq(text, start_idx, end_idx))

\* json.loads on the token language: an object is "{", members, "}"
json_loads(s) ==
    IF /\ Len(s) >= 2
       /\ s[1] = "{"
       /\ s[Len(s)] = "}"
       /\ \A i \in 2..(Len(s) - 1) : s[i] \in MemberTokens \cup {" "}
    THEN LET keys == {MemberKey(s[i]) : i \in {j \in 2..(Len(s) - 1) : s[j] # " "}}
         IN  Ok([k \in keys |-> MemberValue(k)])
    ELSE Err("ValueError")

\* json.dumps of a parsed object, in the same token language
json_dumps(data) ==
    LET tok(k, t) == IF k \in DOMAIN data THEN <<t>> ELSE <<>>
    IN  <<"{">> \o tok("summary", "S") \o tok("assumptions", "A")
               \o tok("files", "F") \o tok("class", "C") \o <<"}">>

\* dict with key k set to v
SetAlways(d, k, v) == [x \in DOMAIN d \cup {k} |-> IF x = k THEN v ELSE d[x]]

\* dict with key k set to v when k is missing
SetDefault(d, k, v) ==
    IF k \in DOMAIN d THEN d ELSE [x \in DOMAIN d \cup {k} |-> IF x = k THEN v ELSE d[x]]

\* an entry of files that is not a mapping (a string, a number, a list), told
\* apart from a dict by its one key
NonMapping(kind) == [nonmapping |-> kind]

\* isinstance(file, dict)
IsDict(file) == "nonmapping" \notin DOMAIN file

\* dict.get(key, default)
DictGet(d, key, default) == IF key \in DOMAIN d THEN d[key] ELSE default

\* d[key] = value
DictSet(d, key, value) == [x \in DOMAIN d \cup {key} |-> IF x = key THEN value ELSE d[x]]

\* a content of more than 1024 * 1024 characters, and what line 201 makes of it
HugeContent == <<"more than 1024 * 1024 characters">>

TruncatedContent == <<"content[:1024 * 1024]", "... [TRUNCATED DUE TO SIZE] ...">>

\* _guess_language, lines 146-163 (the extensions of the mapping that occur)
_guess_language(path) ==
    LET dot == RFind(path, ".")
        ext == IF dot = 0 THEN <<>> ELSE Slice(path, dot + 1, Len(path))
    IN  CASE ext = <<"p", "y">> -> "python"
          [] ext = <<"m", "d">> -> "markdown"
          [] OTHER -> "text"

\* lines 124-138: one entry of files
NormalizeFile(file) ==
    IF ~IsDict(file) THEN file
    ELSE LET f1 == SetDefault(file, "action", "create")
             f2 == SetDefault(f1, "language", _guess_language(DictGet(f1, "path", <<>>)))
             f3 == SetDefault(f2, "content", <<>>)
         IN  f3

\* lines 122-140: the loop over data["files"]
NormalizeFiles(data) ==
    [data EXCEPT !["files"] = [i \in 1..Len(@) |-> NormalizeFile(@[i])]]

\* os.path.basename
Basename(path) == Slice(path, RFind(path, "/") + 1, Len(path))

\* path.startswith("/")
StartsWithSlash(path) == Len(path) > 0 /\ path[1] = "/"

\* ".." in path
ContainsDotDot(path) == \E i \in 1..(Len(path) - 1) : path[i] = "." /\ path[i+1] = "."

\* lines 191-201: one entry of files, which is a dict
SecureFile(file) ==
    LET path    == DictGet(file, "path", <<>>)
        f1      == IF StartsWithSlash(path) \/ ContainsDotDot(path)
                   THEN DictSet(file, "path", Basename(path)) ELSE file
        content == DictGet(f1, "content", <<>>)
    IN  IF content = HugeContent THEN DictSet(f1, "content", TruncatedContent) ELSE f1

\* _validate_security, lines 186-201: file.get raises AttributeError on an entry
\* that is not a dict
_validate_security(data) ==
    LET files == DictGet(data, "files", <<>>)
    IN  IF \E i \in 1..Len(files) : ~IsDict(files[i]) THEN Err("AttributeError")
        ELSE IF "files" \in DOMAIN data
             THEN Ok([data EXCEPT !["files"] = [i \in 1..Len(files) |-> SecureFile(files[i])]])
             ELSE Ok(data)

_normalize_schema(data0) ==
    LET data1 == IF "files" \notin DOMAIN data0 /\ "class" \in DOMAIN data0
                 THEN [summary     |-> "Auto-recovered code generation",
                       assumptions |-> <<"LLM used legacy/incorrect schema">>,
                       files       |-> <<[path     |-> <<"generated_code", ".", "txt">>,
                                          action   |-> "create",
                                          language |-> "text",
                                          content  |-> json_dumps(data0)]>>]
                 ELSE data0
        data2 == SetDefault(data1, "summary", "Code generated successfully.")
        data3 == SetDefault(data2, "assumptions", <<>>)
        data4 == SetDefault(data3, "files", <<>>)
    IN  NormalizeFiles(data4)

\* AssistantResponse(**data): the three declared fields, other keys dropped
AssistantResponse(data) ==
    [summary |-> data["summary"], assumptions |-> data["assumptions"], files |-> data["files"]]

\* schemas.py lines 35-45: AssistantResponse(**data) validates every entry of files
\* as an AssistantFile
Construct(data) ==
    IF \A i \in 1..Len(data["files"]) :
          IsDict(data["files"][i]) /\ {"path", "action", "language", "content"} \subseteq DOMAIN data["files"][i]
    THEN Ok(AssistantResponse(data))
    ELSE Err("ValidationError")

_parse_and_validate(raw_output) ==
    LET json_str == extract_json(raw_output)
    IN  IF ~json_str.ok THEN Err("ValueError")
        ELSE LET data == json_loads(json_str.val)
             IN  IF ~data.ok THEN Err("ValueError")
                 ELSE LET checked == _validate_security(_normalize_schema(data.val))
                      IN  IF ~checked.ok THEN Err(checked.err) ELSE Construct(checked.val)

(***************************************************************************)
(* services.py: CodeGenerationService.generate_code                        *)
(***************************************************************************)
\* the instructions a caller may pass, as token sequences
Instructions == {<<"i1">>, <<"i2">>}

\* the text appended on a failed attempt: " (Ensure valid JSON output format)"
Hint == "(Ensure valid JSON output format)"

\* the texts generate_assistant_response may return
RawOutputs ==
    { <<"n">>,
      <<"}", "n", "{">>,
      <<"{", "n", "}">>,
      <<"{", "}", "{", "}">>,
      <<"n", " ", "{", "F", "}", " ", "n">>,
      <<"{", "S", "A", "F", "}">>,
      <<"{", "C", "}">> }

max_retries_off_by_one == 2 + 1
max_retries == 2

NoError == [type |-> None, attempt |-> 0]

\* `except Exception`: which errors of an attempt the loop catches, all of them
Catches(e) == TRUE

\* line 46-48: the instruction of the next attempt
HintOnce(instr, att) ==
    IF att < max_retries /\ Hint \notin Range(instr) THEN Append(instr, Hint) ELSE instr
NextInstruction(instr, att) ==
    IF att < max_retries THEN Append(instr, Hint) ELSE instr

\* line 51: the error raised once the loop is exhausted
RaisedAfterLoop(errs, last) == last

GenInit ==
    /\ gpc = "idle"
    /\ instruction = <<>>
    /\ attempt = 0
    /\ last_error = NoError
    /\ llm_calls = <<>>
    /\ llm_pending = 0
    /\ outcomes = <<>>
    /\ gen_out = [kind |-> None]

\* lines 24-37: retrieval of the contexts, which may raise, and the loop's set-up
GenStart(instr, retrieval_ok) ==
    /\ gpc = "idle"
    /\ instruction' = instr
    /\ attempt' = 0
    /\ last_error' = NoError
    /\ IF retrieval_ok
       THEN gpc' = "loop" /\ gen_out' = gen_out
       ELSE gpc' = "raised" /\ gen_out' = [kind |-> "raise", err |-> [type |-> "RetrievalError", attempt |-> 0]]
    /\ UNCHANGED <<llm_calls, llm_pending, outcomes>>
    /\ UNCHANGED <<storeVars, idxVars, pureVars>>

\* line 41: the call of generate_assistant_response(instruction, contexts)
LLMCall ==
    /\ gpc = "loop"
    /\ llm_calls' = Append(llm_calls, instruction)
    /\ llm_pending' = llm_pending + 1
    /\ gpc' = "llm"
    /\ UNCHANGED <<instruction, attempt, last_error, outcomes, gen_out>>
    /\ UNCHANGED <<storeVars, idxVars, pureVars>>

\* lines 43-51: the except clause, the loop's next iteration or its exhaustion
AttemptFailed(e, raw) ==
    LET errs == Append(outcomes, [ok |-> FALSE, err |-> e, raw |-> raw])
    IN  /\ outcomes' = errs
        /\ IF Catches(e)
           THEN /\ last_error' = e
                /\ instruction' = NextInstruction(instruction, attempt)
                /\ IF attempt + 1 < max_retries + 1
                   THEN gpc' = "loop" /\ attempt' = attempt + 1 /\ gen_out' = gen_out
                   ELSE /\ gpc' = "raised"
                        /\ attempt' = attempt
                        /\ gen_out' = [kind |-> "raise", err |-> RaisedAfterLoop(errs, e)]
           ELSE /\ gpc' = "raised"
                /\ gen_out' = [kind |-> "raise", err |-> e]
                /\ UNCHANGED <<last_error, instruction, attempt>>

\* generate_assistant_response raises RuntimeError (llm_client.py 41, 47)
LLMRaises ==
    /\ gpc = "llm"
    /\ llm_pending' = llm_pending - 1
    /\ AttemptFailed([type |-> "RuntimeError", attempt |-> attempt + 1], <<>>)
    /\ UNCHANGED llm_calls
    /\ UNCHANGED <<storeVars, idxVars, pureVars>>

\* generate_assistant_response returns raw; line 42 parses and validates it
LLMReturns(raw) ==
    /\ gpc = "llm"
    /\ llm_pending' = llm_pending - 1
    /\ LET r == _parse_and_validate(raw)
       IN  IF r.ok
           THEN /\ gpc' = "returned"
                /\ gen_out' = [kind |-> "return", val |-> r.val]
                /\ outcomes' = Append(outcomes, [ok |-> TRUE, err |-> NoError, raw |-> raw])
                /\ UNCHANGED <<instruction, attempt, last_error>>
           ELSE AttemptFailed([type |-> r.err, attempt |-> attempt + 1], raw)
    /\ UNCHANGED llm_calls
    /\ UNCHANGED <<storeVars, idxVars, pureVars>>

GenNext ==
    \/ \E instr \in Instructions, retrieval_ok \in BOOLEAN : GenStart(instr, retrieval_ok)
    \/ LLMCall
    \/ LLMRaises
    \/ \E raw \in RawOutputs : LLMReturns(raw)

(***************************************************************************)
(* vector_store.py: InMemoryVectorStore                                    *)
(***************************************************************************)
\* bound on the number of records a store holds in SpecStore
MaxRecords == 3
\* bound on top_k
MaxTopK == 2

\* md.get("doc_id")
MetaGet(md, key) == IF key \in DOMAIN md THEN md[key] ELSE None

\* the records callers insert: (id, vector, text, metadata)
Items ==
    { [id |-> "d1:0", vector |-> <<1, 0>>, text |-> "t1", metadata |-> [doc_id |-> "d1", chunk_index |-> 0]],
      [id |-> "d1:1", vector |-> <<0, 1>>, text |-> "t2", metadata |-> [doc_id |-> "d1", chunk_index |-> 1]],
      [id |-> "d2:0", vector |-> <<0, 1>>, text |-> "t3", metadata |-> [doc_id |-> "d2", chunk_index |-> 0]] }

\* the batches add_many is called with
Batches ==
    {<<a>> : a \in Items} \cup {<<a, b>> : a \in {x \in Items : x.id = "d1:0"}, b \in Items}

\* the calls of add_many: each batch with its metadatas, and the one-record batches
\* of document d2 also with metadatas=None
AddCalls ==
    {[batch |-> b, with_metadatas |-> TRUE] : b \in Batches}
    \cup {[batch |-> b, with_metadatas |-> FALSE] : b \in {<<x>> : x \in {y \in Items : y.id = "d2:0"}}}

QueryVectors == {<<1, 0>>, <<-1, 1>>}
DocIds == {"d1", "d2", ""}

RECURSIVE Dot(_, _)
Dot(v, q) == IF Len(v) = 0 THEN 0 ELSE v[1] * q[1] + Dot(Tail(v), Tail(q))

\* __init__, line 18-33: whether the instance ends up on Chroma
CtorKeepsChromaOnFailure(available, init_throws) == available
CtorUseChroma(available, init_throws) == available /\ ~init_throws

\* __init__, line 28: the warning logged when the Chroma client cannot be built
CtorLog(available, init_throws) ==
    IF available /\ init_throws THEN <<"Chroma initialization failed">> ELSE <<>>

StoreInit ==
    \E available \in BOOLEAN, init_throws \in BOOLEAN :
        /\ use_chroma = CtorUseChroma(available, init_throws)
        /\ store_log = CtorLog(available, init_throws)
        /\ store_ret = [op |-> "__init__", arg |-> <<available, init_throws>>, raised |-> None, value |-> None]
        /\ ids = <<>> /\ vectors = <<>> /\ texts = <<>> /\ metadatas = <<>>
        /\ collection = <<>>
        /\ deleted_docs = {}

\* add_many, line 44: the branch taken
AddUsesChroma(flag) == flag

\* add_many, line 42-43: metadatas defaults to one empty dict per id
BatchMetadatas(batch, with_metadatas) ==
    [i \in 1..Len(batch) |-> IF with_metadatas THEN batch[i].metadata ELSE EmptyDict]

\* add_many, line 54-58: the in-memory loop, one record after the other
RECURSIVE AppendAll(_, _, _)
AppendAll(lists, batch, metas) ==
    IF Len(batch) = 0 THEN lists
    ELSE AppendAll([ids       |-> Append(lists.ids, batch[1].id),
                    vectors   |-> Append(lists.vectors, batch[1].vector),
                    texts     |-> Append(lists.texts, batch[1].text),
                    metadatas |-> Append(lists.metadatas, metas[1])],
                   Tail(batch), Tail(metas))

Lists == [ids |-> ids, vectors |-> vectors, texts |-> texts, metadatas |-> metadatas]

SetListsButTexts(l) ==
    /\ ids' = l.ids
    /\ vectors' = l.vectors
    /\ texts' = texts
    /\ metadatas' = l.metadatas

SetLists(l) ==
    /\ ids' = l.ids
    /\ vectors' = l.vectors
    /\ texts' = l.texts
    /\ metadatas' = l.metadatas

\* add_many(ids, vectors, texts, metadatas); chroma_throws: collection.add or persist raises
add_many(batch, with_metadatas, chroma_throws) ==
    LET metas == BatchMetadatas(batch, with_metadatas)
    IN  /\ UNCHANGED <<genVars, idxVars, pureVars>>
        /\ deleted_docs' = IF AddUsesChroma(use_chroma) /\ chroma_throws THEN deleted_docs
                           ELSE deleted_docs \ {MetaGet(metas[i], "doc_id") : i \in 1..Len(batch)}
        /\ IF AddUsesChroma(use_chroma)
           THEN /\ UNCHANGED <<ids, vectors, texts, metadatas, use_chroma, store_log>>
                /\ IF chroma_throws
                   THEN /\ collection' = collection
                        /\ store_ret' = [op |-> "add_many", arg |-> Len(batch), raised |-> "ChromaError", value |-> None]
                   ELSE /\ Len(collection) + Len(batch) <= MaxRecords
                        /\ collection' = collection \o [i \in 1..Len(batch) |->
                                             [id |-> batch[i].id, vector |-> batch[i].vector,
                                              text |-> batch[i].text, metadata |-> metas[i]]]
                        /\ store_ret' = [op |-> "add_many", arg |-> Len(batch), raised |-> None, value |-> None]
           ELSE /\ ~chroma_throws
                /\ Len(ids) + Len(batch) <= MaxRecords
                /\ SetLists(AppendAll(Lists, batch, metas))
                /\ store_ret' = [op |-> "add_many", arg |-> Len(batch), raised |-> None, value |-> None]
                /\ UNCHANGED <<use_chroma, collection, store_log>>

\* np.argsort(-sims): every ordering of the positions by non-increasing similarity
\* (the order among equal similarities is the sort's choice)
ArgSortAscending(sims) ==
    LET n == Len(sims)
    IN  {p \in [1..n -> 1..n] :
            /\ \A i, j \in 1..n : i # j => p[i] # p[j]
            /\ \A i, j \in 1..n : i < j => sims[p[i]] <= sims[p[j]]}
ArgSortDescending(sims) ==
    LET n == Len(sims)
    IN  {p \in [1..n -> 1..n] :
            /\ \A i, j \in 1..n : i # j => p[i] # p[j]
            /\ \A i, j \in 1..n : i < j => -sims[p[i]] <= -sims[p[j]]}

\* idx[:top_k] for top_k >= 0
Take(p, top_k) == [i \in 1..(IF top_k < Len(p) THEN top_k ELSE Len(p)) |-> p[i]]

\* search, line 72-81, on lists l: the hits for the ordering p of the positions
InMemoryHits(l, query_vector, top_k, p) ==
    LET sims == [i \in 1..Len(l.vectors) |-> Dot(l.vectors[i], query_vector)]
        idx  == Take(p, top_k)
    IN  [j \in 1..Len(idx) |->
            [id |-> l.ids[idx[j]], score |-> sims[idx[j]],
             text |-> l.texts[idx[j]], metadata |-> l.metadatas[idx[j]]]]

\* search, line 62-70: Chroma's answer; its ranking and distances are Chroma's own
ChromaHits(top_k) ==
    [j \in 1..(IF top_k < Len(collection) THEN top_k ELSE Len(collection)) |->
        [id |-> collection[j].id, score |-> None,
         text |-> collection[j].text, metadata |-> collection[j].metadata]]

\* search(query_vector, top_k)
search(query_vector, top_k) ==
    /\ IF use_chroma
       THEN store_ret' = [op |-> "search", arg |-> <<query_vector, top_k>>, raised |-> None,
                          value |-> ChromaHits(top_k)]
       ELSE IF Len(vectors) = 0
            THEN store_ret' = [op |-> "search", arg |-> <<query_vector, top_k>>, raised |-> None,
                               value |-> <<>>]
            ELSE \E p \in ArgSortDescending([i \in 1..Len(vectors) |-> Dot(vectors[i], query_vector)]) :
                    store_ret' = [op |-> "search", arg |-> <<query_vector, top_k>>, raised |-> None,
                                  value |-> InMemoryHits(Lists, query_vector, top_k, p)]
    /\ UNCHANGED <<ids, vectors, texts, metadatas, use_chroma, collection, store_log, deleted_docs>>
    /\ UNCHANGED <<genVars, idxVars, pureVars>>

\* delete_doc, line 122: whether record i belongs to the document
MatchesAny(md, doc_id) == TRUE
MatchesDoc(md, doc_id) == MetaGet(md, "doc_id") = doc_id

\* delete_doc, line 115-128: the keep lists and the count after position i-1
RECURSIVE DeleteLoop(_, _, _, _)
DeleteLoop(l, doc_id, i, acc) ==
    IF i > Len(l.ids) THEN acc
    ELSE IF MatchesDoc(l.metadatas[i], doc_id)
         THEN DeleteLoop(l, doc_id, i + 1, [acc EXCEPT !.deleted = @ + 1])
         ELSE DeleteLoop(l, doc_id, i + 1,
                         [acc EXCEPT !.ids       = Append(@, l.ids[i]),
                                     !.vectors   = Append(@, l.vectors[i]),
                                     !.texts     = Append(@, l.texts[i]),
                                     !.metadatas = Append(@, l.metadatas[i])])

\* Chroma's delete(where={"doc_id": doc_id}) and delete(ids=...)
ChromaWithout(doc_id) ==
    LET keep == {i \in 1..Len(collection) : MetaGet(collection[i].metadata, "doc_id") # doc_id}
        nth(j) == CHOOSE i \in keep : Cardinality({x \in keep : x < i}) = j - 1
    IN  [j \in 1..Cardinality(keep) |-> collection[nth(j)]]

\* delete_doc(doc_id); chroma is what the Chroma calls do: "ok" (delete by filter
\* succeeds), "by_ids" (it raises, get and delete by ids succeed), "fail" (both raise)
delete_doc(doc_id, chroma) ==
    /\ UNCHANGED <<genVars, idxVars, pureVars>>
    /\ IF doc_id = ""
       THEN /\ chroma = "ok"
            /\ store_ret' = [op |-> "delete_doc", arg |-> doc_id, raised |-> None, value |-> 0]
            /\ UNCHANGED <<ids, vectors, texts, metadatas, use_chroma, collection, store_log, deleted_docs>>
       ELSE IF use_chroma
       THEN /\ UNCHANGED <<ids, vectors, texts, metadatas, use_chroma, store_log>>
            /\ collection' = IF chroma = "fail" THEN collection ELSE ChromaWithout(doc_id)
            /\ deleted_docs' = IF chroma = "fail" THEN deleted_docs ELSE deleted_docs \cup {doc_id}
            /\ store_ret' = [op |-> "delete_doc", arg |-> doc_id, raised |-> None,
                             value |-> IF chroma = "by_ids"
                                       THEN Len(collection) - Len(ChromaWithout(doc_id))
                                       ELSE 0]
       ELSE /\ chroma = "ok"
            /\ LET r == DeleteLoop(Lists, doc_id, 1,
                                   [ids |-> <<>>, vectors |-> <<>>, texts |-> <<>>,
                                    metadatas |-> <<>>, deleted |-> 0])
               IN  /\ SetLists(r)
                   /\ store_ret' = [op |-> "delete_doc", arg |-> doc_id, raised |-> None, value |-> r.deleted]
            /\ deleted_docs' = deleted_docs \cup {doc_id}
            /\ UNCHANGED <<use_chroma, collection, store_log>>

AddMany ==
    \E call \in AddCalls, chroma_throws \in BOOLEAN :
        add_many(call.batch, call.with_metadatas, chroma_throws)

Search ==
    \E query_vector \in QueryVectors, top_k \in 1..MaxTopK : search(query_vector, top_k)

DeleteDoc ==
    \E doc_id \in DocIds, chroma \in {"ok", "by_ids", "fail"} : delete_doc(doc_id, chroma)

StoreNext == AddMany \/ Search \/ DeleteDoc

(***************************************************************************)
(* codebase.py: CodebaseAssistant, run by two threads (main.py): "bg" is   *)
(* the thread startup_event starts on index_codebase, "req" is the event   *)
(* loop, which runs one request handler at a time.  A thread's step is one *)
(* statement; the four appends of add_many are four steps.                 *)
(***************************************************************************)
Threads == {"bg", "req"}

\* bound on the number of chunks the walk finds
NChunks == 2
\* bound on the number of calls the request thread makes
MaxRequests == 2
\* bound on the chunks of one batch (codebase.py line 78 has batch_size = 100),
\* scaled to the corpus so that the corpus takes more than one batch
batch_size == 1

\* what os.walk and chunk_text yield (lines 42-74): chunk k of the one file "a.py"
Corpus ==
    [k \in 1..NChunks |->
        [id |-> <<"a.py", k - 1>>, text |-> <<"File: a.py", k - 1>>,
         metadata |-> [path |-> "a.py", chunk_index |-> k - 1, type |-> "codebase"]]]

\* embedder.embed_texts, as a function of the text
Embed(text) == IF text[2] % 2 = 0 THEN <<1, 0>> ELSE <<0, 1>>

NoFrame ==
    [op |-> "none", force |-> FALSE, ret |-> "top", all_chunks |-> <<>>,
     i |-> 0, j |-> 0, n_vectors |-> 0, status |-> "none"]

IdxInit ==
    /\ is_indexed = FALSE
    /\ pc = [t \in Threads |-> IF t = "bg" THEN "i_check" ELSE "idle"]
    /\ frame = [t \in Threads |-> IF t = "bg" THEN [NoFrame EXCEPT !.op = "index", !.status = "running"]
                                  ELSE NoFrame]
    /\ walks = 0
    /\ requests = 0
    /\ ids = <<>> /\ vectors = <<>> /\ texts = <<>> /\ metadatas = <<>>
    /\ use_chroma = FALSE /\ collection = <<>> /\ store_log = <<>> /\ deleted_docs = {}
    /\ store_ret = [op |-> "__init__", arg |-> <<FALSE, FALSE>>, raised |-> None, value |-> None]

StoreFrame == <<use_chroma, collection, store_log, store_ret, deleted_docs>>

\* the statement after the outermost call of thread t has returned or raised
Rest(t) == IF t = "bg" THEN "done" ELSE "idle"

\* the running call of t ends: normally with a result, or with an exception
Finish(t, status) ==
    /\ pc' = [pc EXCEPT ![t] = Rest(t)]
    /\ frame' = [frame EXCEPT ![t] = [NoFrame EXCEPT !.op = frame[t].op, !.status = status]]

\* main.py line 68 / services.py line 27: a request calls assistant_rag.search
ReqSearch ==
    /\ pc["req"] = "idle"
    /\ requests < MaxRequests
    /\ requests' = requests + 1
    /\ pc' = [pc EXCEPT !["req"] = "s_check"]
    /\ frame' = [frame EXCEPT !["req"] = [NoFrame EXCEPT !.op = "search", !.status = "running"]]
    /\ UNCHANGED <<is_indexed, walks, ids, vectors, texts, metadatas>>
    /\ UNCHANGED <<StoreFrame, genVars, pureVars>>

\* a caller on the request thread calls index_codebase(force)
ReqIndex(force) ==
    /\ pc["req"] = "idle"
    /\ requests < MaxRequests
    /\ requests' = requests + 1
    /\ pc' = [pc EXCEPT !["req"] = "i_check"]
    /\ frame' = [frame EXCEPT !["req"] = [NoFrame EXCEPT !.op = "index", !.force = force,
                                                        !.status = "running"]]
    /\ UNCHANGED <<is_indexed, walks, ids, vectors, texts, metadatas>>
    /\ UNCHANGED <<StoreFrame, genVars, pureVars>>

\* search, line 91: whether search calls index_codebase first
SearchNeverIndexes(flag) == FALSE
SearchIndexesFirst(flag) == ~flag

\* search, lines 91-92
SearchCheck(t) ==
    /\ pc[t] = "s_check"
    /\ IF SearchIndexesFirst(is_indexed)
       THEN /\ pc' = [pc EXCEPT ![t] = "i_check"]
            /\ frame' = [frame EXCEPT ![t].ret = "search", ![t].force = FALSE]
       ELSE /\ pc' = [pc EXCEPT ![t] = "s_embed"]
            /\ frame' = frame
    /\ UNCHANGED <<is_indexed, walks, requests, ids, vectors, texts, metadatas>>
    /\ UNCHANGED <<StoreFrame, genVars, pureVars>>

\* index_codebase, line 34: whether the call returns at once
SkipsNever(flag, force) == FALSE
IndexSkips(flag, force) == flag /\ ~force

\* index_codebase returns to search (line 93) or to the thread's caller
IndexReturn(t) ==
    IF frame[t].ret = "search"
    THEN pc' = [pc EXCEPT ![t] = "s_embed"] /\ frame' = frame
    ELSE Finish(t, "returned")

\* index_codebase, lines 34-35
IndexCheck(t) ==
    /\ pc[t] = "i_check"
    /\ IF IndexSkips(is_indexed, frame[t].force)
       THEN IndexReturn(t)
       ELSE pc' = [pc EXCEPT ![t] = "i_walk"] /\ frame' = frame
    /\ UNCHANGED <<is_indexed, walks, requests, ids, vectors, texts, metadatas>>
    /\ UNCHANGED <<StoreFrame, genVars, pureVars>>

\* index_codebase, lines 37-76: the directory walk that fills all_chunks
IndexWalk(t) ==
    /\ pc[t] = "i_walk"
    /\ walks' = walks + 1
    /\ frame' = [frame EXCEPT ![t].all_chunks = Corpus, ![t].i = 0, ![t].j = 0]
    /\ pc' = [pc EXCEPT ![t] = IF Len(Corpus) > 0 THEN "i_embed" ELSE "i_flag"]
    /\ UNCHANGED <<is_indexed, requests, ids, vectors, texts, metadatas>>
    /\ UNCHANGED <<StoreFrame, genVars, pureVars>>

\* the batch all_chunks[i : i + batch_size] of thread t
Batch(t) ==
    LET all == frame[t].all_chunks
        lo  == frame[t].i + 1
        hi  == Min(Len(all), frame[t].i + batch_size)
    IN  Slice(all, lo, hi)

\* index_codebase, line 84: embed_texts on the batch, which may raise
IndexEmbed(t, ok) ==
    /\ pc[t] = "i_embed"
    /\ IF ok
       THEN pc' = [pc EXCEPT ![t] = "a_ids"] /\ frame' = [frame EXCEPT ![t].j = 0]
       ELSE Finish(t, "raised")
    /\ UNCHANGED <<is_indexed, walks, requests, ids, vectors, texts, metadatas>>
    /\ UNCHANGED <<StoreFrame, genVars, pureVars>>

\* add_many, line 55: self.ids.append(vid)
AddIds(t) ==
    /\ pc[t] = "a_ids"
    /\ ids' = Append(ids, Batch(t)[frame[t].j + 1].id)
    /\ pc' = [pc EXCEPT ![t] = "a_vectors"]
    /\ UNCHANGED <<is_indexed, frame, walks, requests, vectors, texts, metadatas>>
    /\ UNCHANGED <<StoreFrame, genVars, pureVars>>

\* add_many, line 56: self.vectors.append(vectors[i])
AddVectors(t) ==
    /\ pc[t] = "a_vectors"
    /\ vectors' = Append(vectors, Embed(Batch(t)[frame[t].j + 1].text))
    /\ pc' = [pc EXCEPT ![t] = "a_texts"]
    /\ UNCHANGED <<is_indexed, frame, walks, requests, ids, texts, metadatas>>
    /\ UNCHANGED <<StoreFrame, genVars, pureVars>>

\* add_many, line 57: self.texts.append(texts[i])
AddTexts(t) ==
    /\ pc[t] = "a_texts"
    /\ texts' = Append(texts, Batch(t)[frame[t].j + 1].text)
    /\ pc' = [pc EXCEPT ![t] = "a_metas"]
    /\ UNCHANGED <<is_indexed, frame, walks, requests, ids, vectors, metadatas>>
    /\ UNCHANGED <<StoreFrame, genVars, pureVars>>

\* index_codebase, line 79: whether range(0, len(all_chunks), batch_size) yields i
NoMoreBatches(i, n) == FALSE

MoreBatches(i, n) == i < n

\* add_many, line 58: self.metadatas.append(metadatas[i]); then the next record,
\* the next batch (codebase.py line 79) or the end of the loop
AddMetas(t) ==
    /\ pc[t] = "a_metas"
    /\ metadatas' = Append(metadatas, Batch(t)[frame[t].j + 1].metadata)
    /\ IF frame[t].j + 1 < Len(Batch(t))
       THEN /\ pc' = [pc EXCEPT ![t] = "a_ids"]
            /\ frame' = [frame EXCEPT ![t].j = @ + 1]
       ELSE /\ frame' = [frame EXCEPT ![t].i = @ + batch_size, ![t].j = 0]
            /\ pc' = [pc EXCEPT ![t] = IF MoreBatches(frame[t].i + batch_size, Len(frame[t].all_chunks))
                                        THEN "i_embed" ELSE "i_flag"]
    /\ UNCHANGED <<is_indexed, walks, requests, ids, vectors, texts>>
    /\ UNCHANGED <<StoreFrame, genVars, pureVars>>

\* index_codebase, lines 87-88: self.is_indexed = True, and the return
IndexSetFlag(t) ==
    /\ pc[t] = "i_flag"
    /\ is_indexed' = TRUE
    /\ IndexReturn(t)
    /\ UNCHANGED <<walks, requests, ids, vectors, texts, metadatas>>
    /\ UNCHANGED <<StoreFrame, genVars, pureVars>>

\* search, line 94: the embedding of the query, which may raise
SearchEmbed(t, ok) ==
    /\ pc[t] = "s_embed"
    /\ IF ok
       THEN pc' = [pc EXCEPT ![t] = "s_len"] /\ frame' = frame
       ELSE Finish(t, "raised")
    /\ UNCHANGED <<is_indexed, walks, requests, ids, vectors, texts, metadatas>>
    /\ UNCHANGED <<StoreFrame, genVars, pureVars>>

\* vector_store.search, lines 72-73
SearchLen(t) ==
    /\ pc[t] = "s_len"
    /\ IF Len(vectors) = 0
       THEN Finish(t, "returned")
       ELSE pc' = [pc EXCEPT ![t] = "s_snap"] /\ frame' = frame
    /\ UNCHANGED <<is_indexed, walks, requests, ids, vectors, texts, metadatas>>
    /\ UNCHANGED <<StoreFrame, genVars, pureVars>>

\* vector_store.search, lines 75-77: mats, sims and idx are computed from the
\* vectors the list holds now (the ranking itself is the operator search above)
SearchSnap(t) ==
    /\ pc[t] = "s_snap"
    /\ frame' = [frame EXCEPT ![t].n_vectors = Len(vectors)]
    /\ pc' = [pc EXCEPT ![t] = "s_read"]
    /\ UNCHANGED <<is_indexed, walks, requests, ids, vectors, texts, metadatas>>
    /\ UNCHANGED <<StoreFrame, genVars, pureVars>>

\* vector_store.search, lines 78-81: the hits are read from ids, texts and
\* metadatas at the positions idx, each below the number of vectors copied; a
\* position past the end of one of the lists raises IndexError
SearchRead(t) ==
    /\ pc[t] = "s_read"
    /\ \E status \in {"returned", "raised"} :
          /\ status = "raised" =>
                 frame[t].n_vectors > Min(Len(ids), Min(Len(texts), Len(metadatas)))
          /\ Finish(t, status)
    /\ UNCHANGED <<is_indexed, walks, requests, ids, vectors, texts, metadatas>>
    /\ UNCHANGED <<StoreFrame, genVars, pureVars>>

Next ==
    \/ ReqSearch
    \/ \E force \in {FALSE} : ReqIndex(force)
    \/ \E t \in Threads : SearchCheck(t)
    \/ \E t \in Threads : IndexCheck(t)
    \/ \E t \in Threads : IndexWalk(t)
    \/ \E t \in Threads, ok \in BOOLEAN : IndexEmbed(t, ok)
    \/ \E t \in Threads : AddIds(t)
    \/ \E t \in Threads : AddVectors(t)
    \/ \E t \in Threads : AddTexts(t)
    \/ \E t \in Threads : AddMetas(t)
    \/ \E t \in Threads : IndexSetFlag(t)
    \/ \E t \in Threads, ok \in BOOLEAN : SearchEmbed(t, ok)
    \/ \E t \in Threads : SearchLen(t)
    \/ \E t \in Threads : SearchSnap(t)
    \/ \E t \in Threads : SearchRead(t)

(***************************************************************************)
(* The specifications.  Each one leaves the other components untouched.    *)
(***************************************************************************)
GenUnused ==
    /\ gpc = "unused" /\ instruction = <<>> /\ attempt = 0 /\ last_error = NoError
    /\ llm_calls = <<>> /\ llm_pending = 0 /\ outcomes = <<>> /\ gen_out = [kind |-> None]

StoreUnused ==
    /\ ids = <<>> /\ vectors = <<>> /\ texts = <<>> /\ metadatas = <<>>
    /\ use_chroma = FALSE /\ collection = <<>> /\ store_log = <<>> /\ deleted_docs = {}
    /\ store_ret = [op |-> "unused", arg |-> None, raised |-> None, value |-> None]

IdxUnused ==
    /\ is_indexed = FALSE /\ pc = <<>> /\ frame = <<>>
    /\ walks = 0 /\ requests = 0

PureUnused == chunker = [pc |-> "unused"] /\ parser = [pc |-> "unused"]

InitGen == GenInit /\ StoreUnused /\ IdxUnused /\ PureUnused
SpecGen == InitGen /\ [][GenNext]_vars

Init == IdxInit /\ GenUnused /\ PureUnused
Spec == Init /\ [][Next]_vars

InitStore == StoreInit /\ GenUnused /\ IdxUnused /\ PureUnused
SpecStore == InitStore /\ [][StoreNext]_vars

(***************************************************************************)
(* Properties of generate_code (checked under SpecGen)                     *)
(***************************************************************************)
Failed(k) == k \in 1..Len(outcomes) /\ ~outcomes[k].ok

\* an attempt that ended with a parse or validation failure of the returned text
Unparsable(k) == Failed(k) /\ outcomes[k].err.type = "ValueError"

\* an attempt in which generate_assistant_response raised its RuntimeError
TransportFailed(k) == Failed(k) /\ outcomes[k].err.type = "RuntimeError"

\* C1: every call of generate_code invokes the LLM function at most 3 times, one
\* call after the other (a call starts only when every earlier one has ended), and
\* when all 3 attempts fail generate_code raises the error of the third attempt.
C1_AtMostThreeSequentialCalls ==
    /\ Len(llm_calls) <= 3
    /\ llm_pending \in {0, 1}
    /\ Len(llm_calls) = Len(outcomes) + llm_pending
    /\ (Failed(1) /\ Failed(2) /\ Failed(3)) =>
           /\ gpc = "raised"
           /\ gen_out.kind = "raise"
           /\ gen_out.err = outcomes[3].err

C1_Witness ==
    /\ Failed(1) /\ Failed(2) /\ Failed(3)
    /\ gpc = "raised"
    /\ outcomes[1].err.type # outcomes[3].err.type

\* C2: when the LLM function raises its RuntimeError on an attempt, generate_code
\* fails at once with that error and makes no further LLM call.
C2_TransportErrorIsFatalAtOnce ==
    \A k \in 1..Len(outcomes) :
        TransportFailed(k) =>
            /\ Len(llm_calls) = k
            /\ gpc \in {"raised", "returned"} =>
                   /\ gen_out.kind = "raise"
                   /\ gen_out.err = outcomes[k].err

\* the precondition of C3: unparsable text on attempts 1 and 2, valid text on attempt 3
C3_Case ==
    /\ gpc = "returned"
    /\ Len(outcomes) = 3
    /\ Unparsable(1) /\ Unparsable(2) /\ outcomes[3].ok

\* C3 as stated: in that case generate_code returns the result parsed from the
\* third response, and the instruction of attempt 2 and of attempt 3 is the
\* original instruction with the hint appended, so it differs from attempt 1's.
C3_HintAppendedOnAttempts2And3 ==
    C3_Case =>
        /\ gen_out.kind = "return"
        /\ gen_out.val = _parse_and_validate(outcomes[3].raw).val
        /\ llm_calls[2] = Append(llm_calls[1], Hint)
        /\ llm_calls[3] = Append(llm_calls[1], Hint)
        /\ llm_calls[2] # llm_calls[1]
        /\ llm_calls[3] # llm_calls[1]

\* C3 amended: in that case generate_code returns the result parsed from the third
\* response; attempt 1 sees the caller's instruction, attempt 2 sees it with the
\* hint appended once and attempt 3 with the hint appended twice, so both differ
\* from attempt 1's (and from each other).
C3_HintAccumulates ==
    C3_Case =>
        /\ gen_out.kind = "return"
        /\ gen_out.val = _parse_and_validate(outcomes[3].raw).val
        /\ llm_calls[1] \in Instructions
        /\ llm_calls[2] = llm_calls[1] \o <<Hint>>
        /\ llm_calls[3] = llm_calls[1] \o <<Hint, Hint>>
        /\ llm_calls[2] # llm_calls[1]
        /\ llm_calls[3] # llm_calls[1]

C3_Witness ==
    /\ C3_Case
    /\ outcomes[1].raw # outcomes[2].raw
    /\ _parse_and_validate(outcomes[3].raw).val.files # <<>>

(***************************************************************************)
(* Properties of the vector store (checked under SpecStore)                *)
(***************************************************************************)
InitFailureLogged == "Chroma initialization failed" \in Range(store_log)

KeptPositions(doc_id) == {i \in 1..Len(ids) : MetaGet(metadatas[i], "doc_id") # doc_id}
NthKept(doc_id, j) ==
    CHOOSE i \in KeptPositions(doc_id) : Cardinality({x \in KeptPositions(doc_id) : x < i}) = j - 1

\* a step of delete_doc(d), d non-empty, on the in-memory backend
DeleteStepIsExact ==
    (store_ret'.op = "delete_doc" /\ ~use_chroma /\ store_ret'.arg # "") =>
        LET d == store_ret'.arg
            n == Cardinality(KeptPositions(d))
        IN  /\ Len(ids') = n /\ Len(vectors') = n /\ Len(texts') = n /\ Len(metadatas') = n
            /\ \A j \in 1..n :
                  /\ ids'[j] = ids[NthKept(d, j)]
                  /\ vectors'[j] = vectors[NthKept(d, j)]
                  /\ texts'[j] = texts[NthKept(d, j)]
                  /\ metadatas'[j] = metadatas[NthKept(d, j)]
            /\ store_ret'.value = Len(ids) - n

\* C9: on the in-memory backend delete_doc(d), d non-empty, removes exactly the
\* records whose metadata doc_id is d, returns their number and keeps the others in
\* their order; a later search returns no record of a deleted document until a
\* record of that document is added again.
C9_DeleteRemovesExactlyTheDocument ==
    /\ [][DeleteStepIsExact]_vars
    /\ []((store_ret.op = "search" /\ ~use_chroma) =>
            \A j \in 1..Len(store_ret.value) :
                MetaGet(store_ret.value[j].metadata, "doc_id") \notin deleted_docs)

C9_Witness ==
    /\ ~use_chroma
    /\ store_ret.op = "search"
    /\ "d1" \in deleted_docs
    /\ Len(store_ret.value) = 2
    /\ \E i \in 1..Len(ids) : MetaGet(metadatas[i], "doc_id") = None

\* C10: on the in-memory backend with N records search(q, topK), topK >= 1, returns
\* min(N, topK) hits in non-increasing score order, each a stored record with its dot
\* product, whose scores are the min(N, topK) largest dot products; none when N = 0.
C10_SearchReturnsTopK ==
    (store_ret.op = "search" /\ ~use_chroma) =>
        LET q    == store_ret.arg[1]
            k    == store_ret.arg[2]
            hits == store_ret.value
            N    == Len(vectors)
            dots == {Dot(vectors[i], q) : i \in 1..N}
        IN  /\ Len(hits) = Min(N, k)
            /\ N = 0 => hits = <<>>
            /\ \A i, j \in 1..Len(hits) : i < j => hits[i].score >= hits[j].score
            /\ \A j \in 1..Len(hits) : \E i \in 1..N :
                  /\ hits[j].id = ids[i] /\ hits[j].text = texts[i]
                  /\ hits[j].metadata = metadatas[i]
                  /\ hits[j].score = Dot(vectors[i], q)
            /\ \A s \in dots :
                  Cardinality({j \in 1..Len(hits) : hits[j].score >= s})
                      = Min(k, Cardinality({i \in 1..N : Dot(vectors[i], q) >= s}))

C10_Witness ==
    /\ ~use_chroma
    /\ store_ret.op = "search"
    /\ Len(vectors) = 3
    /\ Len(store_ret.value) = 2
    /\ store_ret.arg[2] = 2
    /\ \E i \in 1..3 : Dot(vectors[i], store_ret.arg[1]) < store_ret.value[2].score


(***************************************************************************)
(* Properties of the codebase indexer and its threads (checked under Spec) *)
(***************************************************************************)
\* thread t is executing the body of index_codebase (lines 37-88)
InIndexBody(t) == pc[t] \in {"i_walk", "i_embed", "a_ids", "a_vectors", "a_texts", "a_metas", "i_flag"}

\* thread t is inside vector_store.add_many / vector_store.search
InAddMany(t) == pc[t] \in {"a_ids", "a_vectors", "a_texts", "a_metas"}

InStoreSearch(t) == pc[t] \in {"s_len", "s_snap", "s_read"}

Occurrences(seq, x) == Cardinality({i \in 1..Len(seq) : seq[i] = x})

\* C4: when index_codebase is started by the startup thread and by requests while
\* is_indexed is false, no two executions of its body overlap, and once indexing
\* has completed without an error each chunk is in the store once.
C4_SingleFlightIndexing ==
    /\ \A t, u \in Threads : t # u => ~(InIndexBody(t) /\ InIndexBody(u))
    /\ (is_indexed /\ \A t \in Threads : frame[t].status # "raised" /\ ~InIndexBody(t)) =>
           \A k \in 1..Len(Corpus) : Occurrences(ids, Corpus[k].id) = 1

\* C5: on the in-memory backend a search never runs interleaved with an add_many
\* on the same store, so the lists it reads have the length of the vectors it ranked.
C5_SearchExcludesWriters ==
    /\ \A t, u \in Threads : t # u => ~(InStoreSearch(t) /\ InAddMany(u))
    /\ \A t \in Threads :
          pc[t] = "s_read" =>
              /\ frame[t].n_vectors = Len(ids)
              /\ frame[t].n_vectors = Len(texts)
              /\ frame[t].n_vectors = Len(metadatas)

\* a step in which index_codebase(force=False) is entered with is_indexed true
NoOpCallStep(t) ==
    /\ pc[t] = "i_check"
    /\ pc'[t] # "i_check"
    /\ is_indexed
    /\ ~frame[t].force

\* C6: index_codebase(force=False) called when is_indexed is true returns without
\* walking the directory or calling the embedder and leaves the store and
\* is_indexed unchanged, at every such call.
C6_IndexedCallIsNoOp ==
    [][\A t \in Threads :
          NoOpCallStep(t) =>
              /\ pc'[t] = IF frame[t].ret = "search" THEN "s_embed" ELSE Rest(t)
              /\ walks' = walks
              /\ is_indexed' = is_indexed
              /\ UNCHANGED <<ids, vectors, texts, metadatas, collection>>]_vars

C6_Witness ==
    /\ requests = 2
    /\ pc["req"] = "idle"
    /\ frame["req"].op = "index"
    /\ frame["req"].status = "returned"
    /\ pc["bg"] = "done"
    /\ walks = 1
    /\ Len(ids) = Len(Corpus)

\* C7: a search called while is_indexed is false runs index_codebase to its end
\* before it queries the store, so is_indexed is true while search queries the store
\* and whenever it returns normally; the flag is set only by the last statement of
\* index_codebase.
C7_SearchIndexesFirst ==
    /\ [](\A t \in Threads :
            /\ (frame[t].op = "search" /\ frame[t].status = "returned") => is_indexed
            /\ pc[t] \in {"s_embed", "s_len", "s_snap", "s_read"} => is_indexed)
    /\ [][is_indexed' # is_indexed =>
            /\ is_indexed'
            /\ \E t \in Threads :
                  /\ pc[t] = "i_flag"
                  /\ pc'[t] = IF frame[t].ret = "search" THEN "s_embed" ELSE Rest(t)]_vars

C7_Witness ==
    /\ frame["req"].op = "search"
    /\ frame["req"].status = "returned"
    /\ requests = 1
    /\ walks = 2
    /\ InIndexBody("bg")

(***************************************************************************)
(* ingest.py: chunk_text.  A text is a sequence of characters: letters,    *)
(* the blank " " (which also stands for a tab), the newline and the        *)
(* carriage return.  One call is run statement by statement: the body of   *)
(* the paragraph loop and the body of the hard-split loop are one step     *)
(* each.                                                                   *)
(***************************************************************************)
NL == "\n"

CR == "\r"

IsSpace(c) == c \in {" ", NL, CR}

\* str.strip() with no argument: leading and trailing whitespace removed
StripWs(s) ==
    IF \A i \in 1..Len(s) : IsSpace(s[i]) THEN <<>>
    ELSE LET a == CHOOSE i \in 1..Len(s) : ~IsSpace(s[i]) /\ \A j \in 1..(i-1) : IsSpace(s[j])
             b == CHOOSE i \in 1..Len(s) : ~IsSpace(s[i]) /\ \A j \in (i+1)..Len(s) : IsSpace(s[j])
         IN  SubSeq(s, a, b)

\* the characters of s at the positions in S, in order
RECURSIVE KeepAt(_, _, _)
KeepAt(s, S, i) ==
    IF i > Len(s) THEN <<>>
    ELSE (IF i \in S THEN <<s[i]>> ELSE <<>>) \o KeepAt(s, S, i + 1)

\* lines 92-95: \r removed, runs of blanks collapsed to one blank, runs of three or
\* more newlines collapsed to two, and the whole stripped
NormalizeWhitespace(text) ==
    LET t1 == KeepAt(text, {i \in 1..Len(text) : text[i] # CR}, 1)
        t2 == KeepAt(t1, {i \in 1..Len(t1) : ~(t1[i] = " " /\ i > 1 /\ t1[i-1] = " ")}, 1)
        t3 == KeepAt(t2, {i \in 1..Len(t2) : ~(t2[i] = NL /\ i > 2 /\ t2[i-1] = NL /\ t2[i-2] = NL)}, 1)
    IN  StripWs(t3)

\* t.split("\n\n")
RECURSIVE SplitBlankLine(_)
SplitBlankLine(t) ==
    LET seps == {i \in 1..(Len(t) - 1) : t[i] = NL /\ t[i+1] = NL}
    IN  IF seps = {} THEN <<t>>
        ELSE LET i == CHOOSE x \in seps : \A y \in seps : x <= y
             IN  <<Slice(t, 1, i - 1)>> \o SplitBlankLine(Slice(t, i + 2, Len(t)))

\* line 99: the stripped, non-empty paragraphs
Paragraphs(t) ==
    LET parts == SplitBlankLine(t)
    IN  SelectSeq([j \in 1..Len(parts) |-> StripWs(parts[j])], LAMBDA p : p # <<>>)

\* "\n\n".join(cur)
RECURSIVE JoinBlankLine(_)
JoinBlankLine(cur) ==
    IF cur = <<>> THEN <<>>
    ELSE IF Len(cur) = 1 THEN cur[1]
    ELSE cur[1] \o <<NL, NL>> \o JoinBlankLine(Tail(cur))

\* flush(), lines 104-112, on the locals c
flush(c) ==
    IF c.cur = <<>> THEN c
    ELSE LET chunk == StripWs(JoinBlankLine(c.cur))
         IN  [c EXCEPT !.chunks = IF chunk # <<>> THEN Append(@, chunk) ELSE @,
                       !.cur = <<>>, !.cur_len = 0]

\* bounds on the calls of chunk_text that are explored
MaxParaLen == 7

MaxParas == 3

MaxMaxChars == 4

\* bound on the chunks one call may append
MaxChunks == 8

Letters == <<"a", "b", "c", "d", "e">>

\* a paragraph of n letters
Para(n) == [i \in 1..n |-> Letters[((i - 1) % 5) + 1]]

\* the texts chunk_text is called with: paragraphs of letters separated by blank
\* lines, and texts with blanks, runs of newlines and carriage returns
ChunkTexts ==
    {JoinBlankLine([j \in 1..Len(lens) |-> Para(lens[j])]) :
        lens \in UNION {[1..n -> 1..MaxParaLen] : n \in 1..MaxParas}}
    \cup { <<>>,
           <<" ", NL, " ">>,
           <<"a", " ", "b", " ", "c", " ", "d">>,
           <<"a", " ", " ", "b", NL, NL, NL, NL, "c", CR, NL, " ", NL, "d", NL, "e", " ">> }

\* the pairs (max_chars, overlap_chars) with 0 <= overlap_chars < max_chars
ChunkParams == {mo \in (2..MaxMaxChars) \X (0..MaxMaxChars) : mo[2] < mo[1]}

ChunkInit ==
    chunker \in {[pc |-> "call", text |-> t, max_chars |-> mo[1], overlap_chars |-> mo[2],
                  paras |-> <<>>, k |-> 0, chunks |-> <<>>, cur |-> <<>>, cur_len |-> 0,
                  start |-> 0, end |-> 0, result |-> None] : t \in ChunkTexts, mo \in ChunkParams}

ChunkFrame == UNCHANGED <<genVars, storeVars, idxVars, parser>>

\* lines 89-102: the early returns, the normalisation and the split into paragraphs
ChunkBegin ==
    /\ chunker.pc = "call"
    /\ LET t == NormalizeWhitespace(chunker.text)
       IN  IF chunker.text = <<>> \/ t = <<>>
           THEN chunker' = [chunker EXCEPT !.pc = "done", !.result = <<>>]
           ELSE chunker' = [chunker EXCEPT !.pc = "para", !.paras = Paragraphs(t), !.k = 1]
    /\ ChunkFrame

\* line 120: the end of the next hard-split slice
SliceEnd(n, start, max_chars) == Min(n, start + max_chars)

\* line 122: where the next slice starts
NextStart(end, overlap_chars) == IF end - overlap_chars > 0 THEN end - overlap_chars ELSE 0

\* lines 126-130: packing of paragraph p into the window
Pack(c, p) ==
    LET add_len == Len(p) + (IF c.cur # <<>> THEN 2 ELSE 0)
        c1      == IF c.cur_len + add_len > c.max_chars THEN flush(c) ELSE c
    IN  [c1 EXCEPT !.cur = Append(@, p), !.cur_len = @ + add_len]

\* lines 114-132: one iteration of `for p in paras` up to the hard-split loop, or
\* the flush after the last paragraph
ParaStep ==
    /\ chunker.pc = "para"
    /\ IF chunker.k > Len(chunker.paras)
       THEN chunker' = [flush(chunker) EXCEPT !.pc = "overlap"]
       ELSE LET p == chunker.paras[chunker.k]
            IN  IF Len(p) > chunker.max_chars
                THEN chunker' = [flush(chunker) EXCEPT !.pc = "split", !.start = 0, !.end = 0]
                ELSE chunker' = [Pack(chunker, p) EXCEPT !.k = @ + 1]
    /\ ChunkFrame

\* lines 119-123: the test of `while start < len(p)` and one iteration of its body
SplitStep ==
    /\ chunker.pc = "split"
    /\ LET p == chunker.paras[chunker.k]
       IN  IF chunker.start < Len(p)
           THEN LET end == SliceEnd(Len(p), chunker.start, chunker.max_chars)
                IN  /\ Len(chunker.chunks) < MaxChunks
                    /\ chunker' = [chunker EXCEPT
                                     !.chunks = Append(@, StripWs(Slice(p, chunker.start + 1, end))),
                                     !.end = end,
                                     !.start = NextStart(end, chunker.overlap_chars)]
           ELSE chunker' = [chunker EXCEPT !.pc = "para", !.k = @ + 1]
    /\ ChunkFrame

\* chunks[i - 1][-overlap_chars:]
WholeChunk(ch, overlap_chars) == ch

PrevTail(ch, overlap_chars) ==
    Slice(ch, IF Len(ch) > overlap_chars THEN Len(ch) - overlap_chars + 1 ELSE 1, Len(ch))

\* lines 135-144: the overlap pass
Overlapped(chunks, overlap_chars) ==
    IF overlap_chars > 0 /\ Len(chunks) > 1
    THEN [i \in 1..Len(chunks) |->
            IF i = 1 THEN chunks[1]
            ELSE StripWs(PrevTail(chunks[i - 1], overlap_chars) \o <<NL, NL>> \o chunks[i])]
    ELSE chunks

\* lines 134-146
OverlapPass ==
    /\ chunker.pc = "overlap"
    /\ chunker' = [chunker EXCEPT !.pc = "done",
                                  !.result = Overlapped(chunker.chunks, chunker.overlap_chars)]
    /\ ChunkFrame

ChunkNext ==
    \/ ChunkBegin
    \/ ParaStep
    \/ SplitStep
    \/ OverlapPass

InitChunk == ChunkInit /\ GenUnused /\ StoreUnused /\ IdxUnused /\ parser = [pc |-> "unused"]

SpecChunk == InitChunk /\ [][ChunkNext]_vars

(***************************************************************************)
(* Properties of chunk_text (checked under SpecChunk)                      *)
(***************************************************************************)
\* the paragraph the loop of chunk_text is at
CurrentPara == chunker.paras[chunker.k]

InSplitLoop == chunker.pc = "split"

\* C12: chunk_text terminates with a finite list whenever 0 <= overlap_chars <
\* max_chars: once a hard-split slice has reached the end of the paragraph the
\* loop test fails, and a call never holds more chunks than its text has characters.
C12_HardSplitLoopStops ==
    /\ (InSplitLoop /\ chunker.end = Len(CurrentPara)) => chunker.start >= Len(CurrentPara)
    /\ chunker.pc # "unused" => Len(chunker.chunks) <= Len(chunker.text)

\* C13 as stated: every chunk chunk_text returns is at most max_chars long, also
\* after the overlap pass.
C13_ReturnedChunksWithinMaxChars ==
    chunker.pc = "done" =>
        \A i \in 1..Len(chunker.result) : Len(chunker.result[i]) <= chunker.max_chars

\* C13 amended: every chunk built by packing or by hard-splitting is at most
\* max_chars long; in the list a call returns the first chunk is at most max_chars
\* long and, when overlap_chars > 0, a later chunk is at most
\* max_chars + overlap_chars + 2 long (the prepended tail and the blank line).
C13_CoreWithinMaxChars ==
    /\ chunker.pc # "unused" =>
          \A i \in 1..Len(chunker.chunks) : Len(chunker.chunks[i]) <= chunker.max_chars
    /\ chunker.pc = "done" =>
          /\ Len(chunker.result) = Len(chunker.chunks)
          /\ \A i \in 1..Len(chunker.result) :
                Len(chunker.result[i]) <=
                    IF i = 1 \/ chunker.overlap_chars = 0 THEN chunker.max_chars
                    ELSE chunker.max_chars + chunker.overlap_chars + 2

C13_Witness ==
    /\ chunker.pc = "done"
    /\ chunker.overlap_chars > 0
    /\ Len(chunker.paras) = 3
    /\ \E i \in 2..Len(chunker.result) :
          Len(chunker.result[i]) = chunker.max_chars + chunker.overlap_chars + 2

\* C17: for one paragraph p longer than max_chars the chunks are the slices
\* p[s : s + max_chars] for s = 0, step, 2*step, ... with step = max_chars -
\* overlap_chars, and the slice that reaches the end of p is the last one.
C17_SlicesStopAtEndOfParagraph ==
    (chunker.pc \in {"split", "para", "overlap"} /\ Len(chunker.paras) = 1
        /\ Len(chunker.paras[1]) > chunker.max_chars) =>
        LET p    == chunker.paras[1]
            step == chunker.max_chars - chunker.overlap_chars
        IN  \A j \in 1..Len(chunker.chunks) :
               /\ (j - 1) * step < Len(p)
               /\ chunker.chunks[j] =
                     StripWs(Slice(p, (j - 1) * step + 1, Min(Len(p), (j - 1) * step + chunker.max_chars)))
               /\ j > 1 => (j - 2) * step + chunker.max_chars < Len(p)

\* C19: while packing, the running length cur_len is the length of the buffer's
\* joined text, so that a paragraph is appended exactly when joined length +
\* separator + len(p) <= max_chars, and after a flush the running length of the new
\* buffer is just len(p).
C19_RunningLengthIsJoinedLength ==
    chunker.pc \in {"para", "split", "overlap"} =>
        chunker.cur_len = Len(JoinBlankLine(chunker.cur))

(***************************************************************************)
(* services.py: the steps of _parse_and_validate on payloads with file     *)
(* entries.  A path is a sequence of characters.  An entry of `files` is a *)
(* dict; an entry that is not a mapping (a string, a number, a list) is    *)
(* written as the function NonMapping(kind), told apart by its one key.    *)
(***************************************************************************)
\* bound on the length of the paths that are enumerated
MaxPathLen == 4

\* bound on the length of the raw texts that are enumerated
MaxRawLen == 4

PathChars == {"/", ".", "a"}

Paths ==
    UNION {[1..n -> PathChars] : n \in 0..MaxPathLen}
    \cup { <<"a", ".", "p", "y">>,
           <<"/", "a", "/", "p", ".", "p", "y">>,
           <<".", ".", "/", ".", ".", "/", "e", "/", "p">> }

FullEntry(path) == [path |-> path, action |-> "modify", language |-> "python", content |-> <<"c">>]

\* the entries of files that are enumerated
FileEntries ==
    {[path |-> p] : p \in Paths}
    \cup {FullEntry(p) : p \in {<<"a">>, <<"/", "a">>, <<"a", "/", ".", ".">>}}
    \cup {[path |-> <<"a">>, content |-> HugeContent], [action |-> "modify"]}
    \cup {NonMapping(k) : k \in {"str", "int", "list"}}

FewEntries ==
    {[path |-> <<"a">>], [path |-> <<".", ".", "/", "a">>], FullEntry(<<"/", "a">>), NonMapping("str")}

FileLists ==
    {<<>>} \cup {<<e>> : e \in FileEntries} \cup {<<e, f>> : e \in FewEntries, f \in FewEntries}

\* the payloads json.loads may yield: every set of top-level members, and with files
TopLevelPayloads ==
    {[k \in keys |-> MemberValue(k)] : keys \in SUBSET {"summary", "assumptions", "files", "class"}}

FilePayloads ==
    {[files |-> fl] : fl \in FileLists}
    \cup {[summary |-> "s", assumptions |-> <<"a">>, files |-> fl] : fl \in FileLists}

Payloads == TopLevelPayloads \cup FilePayloads

\* the raw texts _extract_json is called with
ParseRaws == RawOutputs \cup UNION {[1..n -> {"{", "}", "n", "F"}] : n \in 0..MaxRawLen}

NoParse ==
    [pc |-> "call", raw |-> <<>>, json_str |-> Ok(<<>>), payload |-> EmptyDict, data |-> EmptyDict,
     out |-> Err(None)]

\* a call of _parse_and_validate(raw), or the call at line 66 with the payload that
\* json.loads returned
ParseInit ==
    \/ \E raw \in ParseRaws : parser = [NoParse EXCEPT !.raw = raw]
    \/ \E data \in Payloads : parser = [NoParse EXCEPT !.pc = "loaded", !.payload = data, !.data = data]

ParseFrame == UNCHANGED <<genVars, storeVars, idxVars, chunker>>

ParseRaise(e) == parser' = [parser EXCEPT !.pc = "raised", !.out = Err(e)]

\* line 57
ExtractStep ==
    /\ parser.pc = "call"
    /\ LET json_str == extract_json(parser.raw)
       IN  IF json_str.ok
           THEN parser' = [parser EXCEPT !.pc = "extracted", !.json_str = json_str]
           ELSE parser' = [parser EXCEPT !.pc = "raised", !.json_str = json_str, !.out = Err("ValueError")]
    /\ ParseFrame

\* lines 59-63
LoadsStep ==
    /\ parser.pc = "extracted"
    /\ LET data == json_loads(parser.json_str.val)
       IN  IF data.ok
           THEN parser' = [parser EXCEPT !.pc = "loaded", !.payload = data.val, !.data = data.val]
           ELSE ParseRaise("ValueError")
    /\ ParseFrame

\* line 66
NormalizeStep ==
    /\ parser.pc = "loaded"
    /\ parser' = [parser EXCEPT !.pc = "normalized", !.data = _normalize_schema(parser.data)]
    /\ ParseFrame

\* line 69
SecurityStep ==
    /\ parser.pc = "normalized"
    /\ LET checked == _validate_security(parser.data)
       IN  IF checked.ok
           THEN parser' = [parser EXCEPT !.pc = "checked", !.data = checked.val]
           ELSE ParseRaise(checked.err)
    /\ ParseFrame

\* line 71
ConstructStep ==
    /\ parser.pc = "checked"
    /\ LET response == Construct(parser.data)
       IN  IF response.ok
           THEN parser' = [parser EXCEPT !.pc = "returned", !.out = response]
           ELSE ParseRaise(response.err)
    /\ ParseFrame

ParseNext ==
    \/ ExtractStep
    \/ LoadsStep
    \/ NormalizeStep
    \/ SecurityStep
    \/ ConstructStep

InitParse == ParseInit /\ GenUnused /\ StoreUnused /\ IdxUnused /\ chunker = [pc |-> "unused"]

SpecParse == InitParse /\ [][ParseNext]_vars

(***************************************************************************)
(* Properties of the parse/validate steps (checked under SpecParse)        *)
(***************************************************************************)
\* the path has a segment ".." between its slashes
HasParentSegment(path) ==
    \E i \in 1..(Len(path) - 1) :
        /\ path[i] = "." /\ path[i+1] = "."
        /\ (i = 1 \/ path[i-1] = "/")
        /\ (i + 1 = Len(path) \/ path[i+2] = "/")

\* the payload's entries are dicts with a path (what the result's files come from)
PayloadHasPaths ==
    /\ "files" \in DOMAIN parser.payload
    /\ \A i \in 1..Len(parser.payload["files"]) :
          IsDict(parser.payload["files"][i]) /\ "path" \in DOMAIN parser.payload["files"][i]

\* C14: in a returned result every entry whose path was absolute or had a ".."
\* segment carries the base filename of that path, and no path of the result is
\* absolute or has a ".." segment.
C14_NoTraversalInResult ==
    (parser.pc = "returned" /\ PayloadHasPaths) =>
        \A i \in 1..Len(parser.out.val.files) :
            LET before == parser.payload["files"][i]["path"]
                after  == parser.out.val.files[i]["path"]
            IN  /\ (StartsWithSlash(before) \/ HasParentSegment(before)) => after = Basename(before)
                /\ ~StartsWithSlash(after)
                /\ ~HasParentSegment(after)

\* the payload's files hold an entry that is not a mapping
HasNonMapping ==
    /\ "files" \in DOMAIN parser.payload
    /\ \E i \in 1..Len(parser.payload["files"]) : ~IsDict(parser.payload["files"][i])

\* C15: a payload whose files hold an entry that is not a mapping is processed
\* without error: parse/validate does not raise on it.
C15_NonMappingEntryIsSkipped ==
    HasNonMapping => parser.pc # "raised"

\* the payload has not the legacy shape of line 105
NotLegacy == ~("files" \notin DOMAIN parser.payload /\ "class" \in DOMAIN parser.payload)

Normalized == parser.pc \in {"normalized", "checked", "returned"}

\* C16 as stated: a missing summary is backfilled with the empty string, missing
\* assumptions and files with the empty list, the present fields are unchanged.
C16_DefaultsAreEmpty ==
    (Normalized /\ NotLegacy) =>
        /\ "summary" \notin DOMAIN parser.payload => parser.data["summary"] = ""
        /\ "assumptions" \notin DOMAIN parser.payload => parser.data["assumptions"] = <<>>
        /\ "files" \notin DOMAIN parser.payload => parser.data["files"] = <<>>

\* C16 amended: for a payload without the legacy shape normalization backfills a
\* missing summary with "Code generated successfully.", missing assumptions and
\* missing files with the empty list; the other top-level fields keep their values;
\* a files list that is present keeps its length, its entries that are not mappings
\* and every key its dict entries had, each dict entry being completed with action,
\* language and content; the payload {"files": []} is returned with files == [].
C16_BackfillsDefaults ==
    /\ (parser.pc = "normalized" /\ NotLegacy) =>
          /\ DOMAIN parser.data = DOMAIN parser.payload \cup {"summary", "assumptions", "files"}
          /\ parser.data["summary"] = DictGet(parser.payload, "summary", "Code generated successfully.")
          /\ parser.data["assumptions"] = DictGet(parser.payload, "assumptions", <<>>)
          /\ "class" \in DOMAIN parser.payload => parser.data["class"] = parser.payload["class"]
          /\ Len(parser.data["files"]) = Len(DictGet(parser.payload, "files", <<>>))
          /\ \A i \in 1..Len(parser.data["files"]) :
                LET before == parser.payload["files"][i]
                    after  == parser.data["files"][i]
                IN  IF IsDict(before)
                    THEN /\ DOMAIN after = DOMAIN before \cup {"action", "language", "content"}
                         /\ \A k \in DOMAIN before : after[k] = before[k]
                    ELSE after = before
    /\ (parser.pc \in {"normalized", "checked", "returned", "raised"}
            /\ parser.payload = [files |-> <<>>]) =>
          /\ parser.pc # "raised"
          /\ parser.data["files"] = <<>>
          /\ parser.pc = "returned" => parser.out.val.files = <<>>

C16_Witness ==
    /\ parser.pc = "returned"
    /\ parser.payload = [files |-> <<>>]
    /\ parser.out.val.summary = "Code generated successfully."
    /\ parser.out.val.assumptions = <<>>

\* the text _extract_json works on, and its span from the first "{" to the last "}"
ExtractText == Strip(parser.raw)

HasSpan ==
    /\ Find(ExtractText, "{") > 0
    /\ RFind(ExtractText, "}") >= Find(ExtractText, "{")

Span == SubSeq(ExtractText, Find(ExtractText, "{"), RFind(ExtractText, "}"))

SpanWellFormed == HasSpan /\ json_loads(Span).ok

\* the first balanced block the brace-depth scan finds in the text
FirstBalancedBlock == BraceScan(ExtractText, 1, 0, FALSE, <<>>)

\* C18: extraction returns the span from the first "{" to the last "}" when the span
\* is well-formed, else the first balanced block of the brace-depth scan, and
\* fails only when the text holds no balanced block.
C18_FallsBackToBalancedBlock ==
    (parser.pc \in {"extracted", "raised"} /\ parser.payload = EmptyDict /\ parser.data = EmptyDict) =>
        /\ SpanWellFormed => parser.json_str = Ok(Span)
        /\ (~SpanWellFormed /\ FirstBalancedBlock.ok) => parser.json_str = FirstBalancedBlock
        /\ ~parser.json_str.ok => ~FirstBalancedBlock.ok

(***************************************************************************)
(* Re-indexing: the CodebaseAssistant once the startup thread has finished *)
(* index_codebase, with requests that call index_codebase(force) and       *)
(* search.                                                                 *)
(***************************************************************************)
\* the states in which the startup thread has left index_codebase and no request
\* has been taken: it has indexed the corpus (ok), or embed_texts raised on its
\* first batch
StartupDone(ok) ==
    /\ is_indexed = ok
    /\ pc = [t \in Threads |-> Rest(t)]
    /\ frame = [t \in Threads |->
                  IF t = "bg" THEN [NoFrame EXCEPT !.op = "index",
                                                   !.status = IF ok THEN "returned" ELSE "raised"]
                  ELSE NoFrame]
    /\ walks = 1
    /\ requests = 0
    /\ ids = [k \in 1..(IF ok THEN Len(Corpus) ELSE 0) |-> Corpus[k].id]
    /\ vectors = [k \in 1..Len(ids) |-> Embed(Corpus[k].text)]
    /\ texts = [k \in 1..Len(ids) |-> Corpus[k].text]
    /\ metadatas = [k \in 1..Len(ids) |-> Corpus[k].metadata]
    /\ use_chroma = FALSE /\ collection = <<>> /\ store_log = <<>> /\ deleted_docs = {}
    /\ store_ret = [op |-> "__init__", arg |-> <<FALSE, FALSE>>, raised |-> None, value |-> None]

ReindexInit == \E ok \in BOOLEAN : StartupDone(ok)

NextReindex ==
    \/ ReqSearch
    \/ \E force \in BOOLEAN : ReqIndex(force)
    \/ \E t \in Threads : SearchCheck(t)
    \/ \E t \in Threads : IndexCheck(t)
    \/ \E t \in Threads : IndexWalk(t)
    \/ \E t \in Threads, ok \in BOOLEAN : IndexEmbed(t, ok)
    \/ \E t \in Threads : AddIds(t)
    \/ \E t \in Threads : AddVectors(t)
    \/ \E t \in Threads : AddTexts(t)
    \/ \E t \in Threads : AddMetas(t)
    \/ \E t \in Threads : IndexSetFlag(t)
    \/ \E t \in Threads, ok \in BOOLEAN : SearchEmbed(t, ok)
    \/ \E t \in Threads : SearchLen(t)
    \/ \E t \in Threads : SearchSnap(t)
    \/ \E t \in Threads : SearchRead(t)

InitReindex == ReindexInit /\ GenUnused /\ PureUnused

SpecReindex == InitReindex /\ [][NextReindex]_vars

\* C11: after any sequence of index_codebase calls, re-indexing with force=True
\* included, no two records of the codebase store have the same chunk id.
C11_ChunkIdsAreUnique ==
    \A i, j \in 1..Len(ids) : i # j => ids[i] # ids[j]

(***************************************************************************)
(* A further property of the vector store (checked under SpecStore)        *)
(***************************************************************************)
\* position i of the four lists holds the fields of one inserted record
SameRecordAt(i) ==
    \E item \in Items :
        /\ ids[i] = item.id
        /\ vectors[i] = item.vector
        /\ texts[i] = item.text
        /\ metadatas[i] \in {item.metadata, EmptyDict}

\* C20: on the in-memory backend, after any sequence of add_many and delete_doc
\* calls the four lists have the same length and position i of each list describes
\* the same record.
C20_ListsStayParallel ==
    ~use_chroma =>
        /\ Len(ids) = Len(vectors)
        /\ Len(ids) = Len(texts)
        /\ Len(ids) = Len(metadatas)
        /\ \A i \in 1..Len(ids) : SameRecordAt(i)

C20_Witness ==
    /\ ~use_chroma
    /\ store_ret.op = "delete_doc"
    /\ store_ret.value = 1
    /\ Len(ids) = 2
    /\ ids[1] # ids[2]

(***************************************************************************)
(* A further property of the codebase indexer (checked under Spec)         *)
(***************************************************************************)
\* every chunk of the walk of thread t has been embedded and added to the store
RunComplete(t) ==
    /\ frame[t].i >= Len(frame[t].all_chunks)
    /\ \A k \in 1..Len(frame[t].all_chunks) :
          /\ frame[t].all_chunks[k].id \in Range(ids)
          /\ Embed(frame[t].all_chunks[k].text) \in Range(vectors)
          /\ frame[t].all_chunks[k].text \in Range(texts)
          /\ frame[t].all_chunks[k].metadata \in Range(metadatas)

\* a step in which the index_codebase run of thread t ends with an exception
IndexRaises(t) ==
    /\ InIndexBody(t)
    /\ frame'[t].status = "raised"

====
